---------------------------- MODULE Spec2Model ----------------------------
(***************************************************************************)
(* WBGT_MapPlotter: the forecast pipeline of wbgt_module.py (cache store,  *)
(* fetcher, parser, classifier, renderer) as sequenced by app.py, and the  *)
(* time-index controller that create_wbgt_map embeds in the artifact.      *)
(*                                                                         *)
(* Representation.  A Python str is a sequence of one-character strings.   *)
(* None is the empty tuple and a present value x is <<x>>.  A WBGT value   *)
(* int(cell) / 10.0 is kept as the integer int(cell), in units of 1/Scale  *)
(* degree: n / 10.0 >= t holds exactly when n >= t * Scale.                *)
(***************************************************************************)
EXTENDS Integers, Sequences, FiniteSets, TLC

VARIABLES
    \* ---- app.py main flow
    pc,             \* position in app.py
    response,       \* what the network answers to requests.get
    kanagawa_gdf,   \* the geometry load_kanagawa_map returned
    csv_content,    \* app.py:12
    time_slots,     \* app.py:13
    wbgt_data,      \* app.py:13
    folium_map,     \* app.py:14
    \* ---- cache store
    cache_file,     \* content of wbgt_cache.json
    now,            \* datetime.now(), in seconds
    call,           \* the last cache/fetch call and what it returned
    lastPut,        \* the last put whose entry no later write replaced
    \* ---- embedded controller (the script of create_wbgt_map)
    readyState,        \* document.readyState
    windowMap,         \* the host has instantiated window.map_* with a _container
    layers,            \* the layers on the rendering surface
    map,               \* var map
    currentTimeIndex,  \* var currentTimeIndex
    markers,           \* var markers
    stationMarkers,    \* var stationMarkers
    timeDisplay,       \* innerHTML of #timeDisplay
    sliderValue,       \* value of #timeSlider
    pollTimers,        \* pending setTimeout(initializeMap, ...) timers
    nextId,            \* identity of the next marker object created
    scene              \* the document: wbgtData, timeSlots, timeLabels, markers

appVars == <<pc, response, kanagawa_gdf, csv_content, time_slots, wbgt_data, folium_map>>
cacheVars == <<cache_file, now, call, lastPut>>
ctlVars == <<readyState, windowMap, layers, map, currentTimeIndex, markers,
             stationMarkers, timeDisplay, sliderValue, pollTimers, nextId,
             scene>>
vars == <<appVars, cacheVars, ctlVars>>

None == <<>>
Some(x) == <<x>>

Min(S) == CHOOSE x \in S : \A y \in S : x <= y
Max(S) == CHOOSE x \in S : \A y \in S : x >= y

-----------------------------------------------------------------------------
(* Python str operations used by the parser                                *)

Digit == {"0", "1", "2", "3", "4", "5", "6", "7", "8", "9"}
Whitespace == {" ", "\t", "\n", "\r"}

DigitValue(c) ==
    CASE c = "0" -> 0 [] c = "1" -> 1 [] c = "2" -> 2 [] c = "3" -> 3
      [] c = "4" -> 4 [] c = "5" -> 5 [] c = "6" -> 6 [] c = "7" -> 7
      [] c = "8" -> 8 [] c = "9" -> 9

RECURSIVE LStrip(_)
LStrip(s) == IF s # <<>> /\ Head(s) \in Whitespace THEN LStrip(Tail(s)) ELSE s

RECURSIVE RStrip(_)
RStrip(s) ==
    IF s # <<>> /\ s[Len(s)] \in Whitespace
    THEN RStrip(SubSeq(s, 1, Len(s) - 1))
    ELSE s

\* str.strip()
Strip(s) == RStrip(LStrip(s))

\* str.split(sep) for a one-character separator: "".split(",") is [""]
RECURSIVE Split(_, _)
Split(s, sep) ==
    LET hits == {i \in 1..Len(s) : s[i] = sep}
    IN  IF hits = {}
        THEN <<s>>
        ELSE LET i == Min(hits)
             IN  <<SubSeq(s, 1, i - 1)>> \o Split(SubSeq(s, i + 1, Len(s)), sep)

RECURSIVE DigitsValue(_, _)
DigitsValue(s, acc) ==
    IF s = <<>> THEN acc
    ELSE IF Head(s) = "_" THEN DigitsValue(Tail(s), acc)
    ELSE DigitsValue(Tail(s), acc * 10 + DigitValue(Head(s)))

\* the literals int() accepts: digits, single underscores between digits
IsDigits(s) ==
    /\ s # <<>>
    /\ \A i \in 1..Len(s) : s[i] \in Digit \cup {"_"}
    /\ s[1] \in Digit
    /\ s[Len(s)] \in Digit
    /\ \A i \in 1..(Len(s) - 1) : ~(s[i] = "_" /\ s[i + 1] = "_")

\* int(s) of a str: None stands for ValueError
int(s) ==
    LET t == Strip(s)
        signed == t # <<>> /\ Head(t) \in {"+", "-"}
        body == IF signed THEN Tail(t) ELSE t
    IN  IF ~IsDigits(body) THEN None
        ELSE IF signed /\ Head(t) = "-" THEN Some(0 - DigitsValue(body, 0))
        ELSE Some(DigitsValue(body, 0))

-----------------------------------------------------------------------------
(* datetime: the proleptic Gregorian calendar of the standard library      *)

MINYEAR == 1
MAXYEAR == 9999

IsLeap(year) == year % 4 = 0 /\ (year % 100 # 0 \/ year % 400 = 0)

DaysInMonth(year, month) ==
    IF month = 2 /\ IsLeap(year) THEN 29
    ELSE <<31, 28, 31, 30, 31, 30, 31, 31, 30, 31, 30, 31>>[month]

DaysBeforeYear(year) ==
    LET y == year - 1 IN y * 365 + (y \div 4) - (y \div 100) + (y \div 400)

RECURSIVE DaysBeforeMonth(_, _)
DaysBeforeMonth(year, month) ==
    IF month = 1 THEN 0
    ELSE DaysBeforeMonth(year, month - 1) + DaysInMonth(year, month - 1)

\* date.toordinal()
Ymd2Ord(year, month, day) ==
    DaysBeforeYear(year) + DaysBeforeMonth(year, month) + day

MAXORDINAL == Ymd2Ord(MAXYEAR, 12, 31)

\* date.fromordinal(n): the 400/100/4/1-year cycle decomposition
Ord2Ymd(ordinal) ==
    LET n0 == ordinal - 1
        n400 == n0 \div 146097
        r400 == n0 % 146097
        n100 == r400 \div 36524
        r100 == r400 % 36524
        n4 == r100 \div 1461
        r4 == r100 % 1461
        n1 == r4 \div 365
        n == r4 % 365
        year == n400 * 400 + 1 + n100 * 100 + n4 * 4 + n1
    IN  IF n1 = 4 \/ n100 = 4
        THEN [year |-> year - 1, month |-> 12, day |-> 31]
        ELSE LET month == Max({m \in 1..12 : DaysBeforeMonth(year, m) <= n})
             IN  [year |-> year, month |-> month,
                  day |-> n - DaysBeforeMonth(year, month) + 1]

\* the argument check of datetime(year, month, day, hour)
DateTimeOk(year, month, day, hour) ==
    /\ year \in MINYEAR..MAXYEAR
    /\ month \in 1..12
    /\ day \in 1..DaysInMonth(year, month)
    /\ hour \in 0..23

\* strftime("%Y%m%d%H"): zero-padded decimal fields
RECURSIVE Dec(_, _)
Dec(n, width) ==
    IF width = 0 THEN <<>>
    ELSE Dec(n \div 10, width - 1)
         \o <<CASE n % 10 = 0 -> "0" [] n % 10 = 1 -> "1" [] n % 10 = 2 -> "2"
                [] n % 10 = 3 -> "3" [] n % 10 = 4 -> "4" [] n % 10 = 5 -> "5"
                [] n % 10 = 6 -> "6" [] n % 10 = 7 -> "7" [] n % 10 = 8 -> "8"
                [] n % 10 = 9 -> "9">>

time_key(dt) ==
    Dec(dt.year, 4) \o Dec(dt.month, 2) \o Dec(dt.day, 2) \o Dec(dt.hour, 2)

-----------------------------------------------------------------------------
(* KanagawaWBGTMapper: configuration                                       *)

\* self.cache_duration, seconds
cache_duration == 45 * 60

\* one WBGT degree in the unit of the stored values (int(value_str) / 10.0)
Scale == 10

\* the keys of self.wbgt_stations
wbgt_stations ==
    {Dec(46091, 5), Dec(46106, 5), Dec(46141, 5), Dec(46166, 5), Dec(46211, 5)}

-----------------------------------------------------------------------------
(* parse_wbgt_data                                                         *)

\* ParseTimeToken with hour 24 reduced modulo 24 on the same date
ParseTimeToken_SameDay(time_str) ==
    LET year == int(SubSeq(time_str, 1, 4))
        month == int(SubSeq(time_str, 5, 6))
        day == int(SubSeq(time_str, 7, 8))
        hour == int(SubSeq(time_str, 9, 10))
        raise == [raised |-> TRUE, dt |-> None]
    IN  IF year = None \/ month = None \/ day = None \/ hour = None THEN raise
        ELSE IF ~DateTimeOk(year[1], month[1], day[1], hour[1] % 24) \/ hour[1] > 24
        THEN raise
        ELSE [raised |-> FALSE,
              dt |-> Some([year |-> year[1], month |-> month[1],
                           day |-> day[1], hour |-> hour[1] % 24])]

\* the body of "if len(time_str) == 10": the datetime of a header token, or
\* raised when int() or datetime() raises
ParseTimeToken(time_str) ==
    LET year == int(SubSeq(time_str, 1, 4))
        month == int(SubSeq(time_str, 5, 6))
        day == int(SubSeq(time_str, 7, 8))
        hour == int(SubSeq(time_str, 9, 10))
        raise == [raised |-> TRUE, dt |-> None]
    IN  IF year = None \/ month = None \/ day = None \/ hour = None THEN raise
        ELSE IF hour[1] = 24
        THEN IF ~DateTimeOk(year[1], month[1], day[1], 0) THEN raise
             ELSE LET ordinal == Ymd2Ord(year[1], month[1], day[1]) + 1
                      d == Ord2Ymd(ordinal)
                  IN  IF ordinal > MAXORDINAL THEN raise
                      ELSE [raised |-> FALSE,
                            dt |-> Some([year |-> d.year, month |-> d.month,
                                         day |-> d.day, hour |-> 0])]
        ELSE IF ~DateTimeOk(year[1], month[1], day[1], hour[1]) THEN raise
             ELSE [raised |-> FALSE,
                   dt |-> Some([year |-> year[1], month |-> month[1],
                                day |-> day[1], hour |-> hour[1]])]

\* "for i in range(2, len(time_header))", from column i (columns count from 1)
RECURSIVE ScanHeader(_, _, _)
ScanHeader(time_header, i, slots) ==
    IF i > Len(time_header) THEN [raised |-> FALSE, time_slots |-> slots]
    ELSE LET time_str == Strip(time_header[i])
         IN  IF time_str # <<>> /\ Len(time_str) = 10
             THEN LET r == ParseTimeToken(time_str)
                  IN  IF r.raised THEN [raised |-> TRUE, time_slots |-> <<>>]
                      ELSE ScanHeader(time_header, i + 1, Append(slots, r.dt[1]))
             ELSE ScanHeader(time_header, i + 1, slots)

\* one cell of a data line: None, or the value in units of 1/Scale degree
ParseCell(value_str) ==
    IF value_str # <<>> THEN int(value_str) ELSE None

\* RowValues with a blank or unreadable cell left out of the series
RECURSIVE RowValues_SkipBad(_, _, _)
RowValues_SkipBad(elements, i, stop) ==
    IF i > stop THEN <<>>
    ELSE IF ParseCell(Strip(elements[i])) = None
    THEN RowValues_SkipBad(elements, i + 1, stop)
    ELSE <<ParseCell(Strip(elements[i]))>> \o RowValues_SkipBad(elements, i + 1, stop)

\* "for i in range(2, min(len(elements), 2 + len(time_slots)))"
RECURSIVE RowValues(_, _, _)
RowValues(elements, i, stop) ==
    IF i > stop THEN <<>>
    ELSE <<ParseCell(Strip(elements[i]))>> \o RowValues(elements, i + 1, stop)

\* ScanRows with every value column of the line consumed, the time axis
\* setting no limit
RECURSIVE ScanRows_NoTruncate(_, _, _, _)
ScanRows_NoTruncate(lines, k, n_slots, data) ==
    IF k > Len(lines) THEN data
    ELSE LET line == lines[k]
             elements == Split(line, ",")
             station_id == Strip(elements[1])
         IN  IF Strip(line) = <<>> THEN ScanRows_NoTruncate(lines, k + 1, n_slots, data)
             ELSE IF Len(elements) < 3
             THEN ScanRows_NoTruncate(lines, k + 1, n_slots, data)
             ELSE IF station_id \in wbgt_stations
             THEN ScanRows_NoTruncate(lines, k + 1, n_slots,
                      [s \in DOMAIN data \cup {station_id} |->
                          IF s = station_id
                          THEN [update_time |-> Strip(elements[2]),
                                values |-> RowValues(elements, 3, Len(elements))]
                          ELSE data[s]])
             ELSE ScanRows_NoTruncate(lines, k + 1, n_slots, data)

\* "for line in lines[1:]", from line k; data is the dict built so far
RECURSIVE ScanRows(_, _, _, _)
ScanRows(lines, k, n_slots, data) ==
    IF k > Len(lines) THEN data
    ELSE LET line == lines[k]
             elements == Split(line, ",")
             station_id == Strip(elements[1])
         IN  IF Strip(line) = <<>> THEN ScanRows(lines, k + 1, n_slots, data)
             ELSE IF Len(elements) < 3 THEN ScanRows(lines, k + 1, n_slots, data)
             ELSE IF station_id \in wbgt_stations
             THEN ScanRows(lines, k + 1, n_slots,
                      [s \in DOMAIN data \cup {station_id} |->
                          IF s = station_id
                          THEN [update_time |-> Strip(elements[2]),
                                values |-> RowValues(elements, 3,
                                    Min({Len(elements), 2 + n_slots}))]
                          ELSE data[s]])
             ELSE ScanRows(lines, k + 1, n_slots, data)

NoneNone == [time_slots |-> None, wbgt_data |-> None]

\* parse_wbgt_data without the "len(lines) < 2" return
parse_wbgt_data_NoLineCheck(content) ==
    IF content = None \/ content[1] = <<>> THEN NoneNone
    ELSE LET lines == Split(Strip(content[1]), "\n")
             h == ScanHeader(Split(lines[1], ","), 3, <<>>)
         IN  IF h.raised THEN NoneNone
             ELSE [time_slots |-> Some(h.time_slots),
                   wbgt_data |-> Some(ScanRows(lines, 2,
                                     Len(h.time_slots), <<>>))]

\* csv_content is None or Some(str); the result is the returned pair
parse_wbgt_data(content) ==
    IF content = None \/ content[1] = <<>> THEN NoneNone
    ELSE LET lines == Split(Strip(content[1]), "\n")
         IN  IF Len(lines) < 2 THEN NoneNone
             ELSE LET h == ScanHeader(Split(lines[1], ","), 3, <<>>)
                  IN  IF h.raised THEN NoneNone
                      ELSE [time_slots |-> Some(h.time_slots),
                            wbgt_data |-> Some(ScanRows(lines, 2,
                                              Len(h.time_slots), <<>>))]

-----------------------------------------------------------------------------
(* get_wbgt_color: <<color, level>> of None or a value                     *)

\* get_wbgt_color with the lower bound of "danger" exclusive
get_wbgt_color_Strict31(wbgt_value) ==
    IF wbgt_value = None THEN <<"gray", "no data">>
    ELSE IF wbgt_value[1] >= 35 * Scale THEN <<"black", "disaster">>
    ELSE IF wbgt_value[1] >= 33 * Scale THEN <<"mediumvioletred", "extreme">>
    ELSE IF wbgt_value[1] > 31 * Scale THEN <<"red", "danger">>
    ELSE IF wbgt_value[1] >= 28 * Scale THEN <<"orange", "severe-warning">>
    ELSE IF wbgt_value[1] >= 25 * Scale THEN <<"gold", "warning">>
    ELSE IF wbgt_value[1] >= 21 * Scale THEN <<"deepskyblue", "caution">>
    ELSE <<"lightblue", "near-safe">>

\* get_wbgt_color with the thresholds tested lowest first
get_wbgt_color_LowestFirst(wbgt_value) ==
    IF wbgt_value = None THEN <<"gray", "no data">>
    ELSE IF wbgt_value[1] < 21 * Scale THEN <<"lightblue", "near-safe">>
    ELSE IF wbgt_value[1] >= 21 * Scale THEN <<"deepskyblue", "caution">>
    ELSE IF wbgt_value[1] >= 25 * Scale THEN <<"gold", "warning">>
    ELSE IF wbgt_value[1] >= 28 * Scale THEN <<"orange", "severe-warning">>
    ELSE IF wbgt_value[1] >= 31 * Scale THEN <<"red", "danger">>
    ELSE IF wbgt_value[1] >= 33 * Scale THEN <<"mediumvioletred", "extreme">>
    ELSE <<"black", "disaster">>

get_wbgt_color(wbgt_value) ==
    IF wbgt_value = None THEN <<"gray", "no data">>
    ELSE IF wbgt_value[1] >= 35 * Scale THEN <<"black", "disaster">>
    ELSE IF wbgt_value[1] >= 33 * Scale THEN <<"mediumvioletred", "extreme">>
    ELSE IF wbgt_value[1] >= 31 * Scale THEN <<"red", "danger">>
    ELSE IF wbgt_value[1] >= 28 * Scale THEN <<"orange", "severe-warning">>
    ELSE IF wbgt_value[1] >= 25 * Scale THEN <<"gold", "warning">>
    ELSE IF wbgt_value[1] >= 21 * Scale THEN <<"deepskyblue", "caution">>
    ELSE <<"lightblue", "near-safe">>

-----------------------------------------------------------------------------
(* Cache store: _load_cache, _save_cache                                   *)
(*                                                                         *)
(* cache_file is the content of wbgt_cache.json: absent, not JSON, JSON    *)
(* that is no object, or a JSON object with an optional "timestamp" string *)
(* and an optional "data" member.  Instants are seconds; the epoch is 0.   *)

\* datetime.isoformat(): the instant written out as text
isoformat(t) == <<"T">> \o Dec(t, 6)

\* datetime.fromisoformat(s): None stands for ValueError
fromisoformat(s) ==
    IF Len(s) = 7 /\ s[1] = "T" /\ \A i \in 2..7 : s[i] \in Digit
    THEN Some(DigitsValue(Tail(s), 0))
    ELSE None

\* the default of cache_data.get('timestamp', '1970-01-01')
EpochString == isoformat(0)

\* _load_cache with the entry still valid at an age of exactly cache_duration
_load_cache_Inclusive(file, t) ==
    IF file.kind # "json" THEN None
    ELSE LET cache_time ==
                 fromisoformat(IF file.timestamp = None THEN EpochString
                               ELSE file.timestamp[1])
         IN  IF cache_time = None THEN None
             ELSE IF t - cache_time[1] <= cache_duration THEN file.data
             ELSE None

_load_cache(file, t) ==
    IF file.kind # "json" THEN None
    ELSE LET cache_time ==
                 fromisoformat(IF file.timestamp = None THEN EpochString
                               ELSE file.timestamp[1])
         IN  IF cache_time = None THEN None
             ELSE IF t - cache_time[1] < cache_duration THEN file.data
             ELSE None

\* the file _save_cache(data) leaves at instant t.  The except branch of
\* lines 96-97 is entered only when the file system fails the write; the
\* file system is taken to carry out the writes it is given.
_save_cache(data, t) ==
    [kind |-> "json", timestamp |-> Some(isoformat(t)), data |-> Some(data)]

-----------------------------------------------------------------------------
(* Forecast fetcher: download_wbgt_data                                    *)
(*                                                                         *)
(* resp is the outcome of requests.get and raise_for_status: status "ok"   *)
(* with the body text, or "timeout", "http_error", "connection_error".     *)

\* Python truth value of None or a str
Truthy(v) == v # None /\ v[1] # <<>>

\* download_wbgt_data that writes the cache only when force_update is false
download_wbgt_data_NoSaveOnForce(force_update, file, t, resp) ==
    LET cached_data == IF force_update THEN None ELSE _load_cache(file, t)
    IN  IF ~force_update /\ Truthy(cached_data)
        THEN [ret |-> cached_data, cache_file |-> file, requests |-> 0, saves |-> 0]
        ELSE IF resp.status = "ok"
        THEN [ret |-> Some(resp.text),
              cache_file |-> IF force_update THEN file ELSE _save_cache(resp.text, t),
              requests |-> 1, saves |-> IF force_update THEN 0 ELSE 1]
        ELSE [ret |-> None, cache_file |-> file, requests |-> 1, saves |-> 0]

download_wbgt_data(force_update, file, t, resp) ==
    LET cached_data == IF force_update THEN None ELSE _load_cache(file, t)
    IN  IF ~force_update /\ Truthy(cached_data)
        THEN [ret |-> cached_data, cache_file |-> file, requests |-> 0, saves |-> 0]
        ELSE IF resp.status = "ok"
        THEN [ret |-> Some(resp.text), cache_file |-> _save_cache(resp.text, t),
              requests |-> 1, saves |-> 1]
        ELSE [ret |-> None, cache_file |-> file, requests |-> 1, saves |-> 0]

-----------------------------------------------------------------------------
(* Renderer: create_forecast_table, create_wbgt_map                        *)

\* strftime of the display labels, with "-" and " " for the fixed text
time_label(dt) ==
    Dec(dt.year, 4) \o <<"-">> \o Dec(dt.month, 2) \o <<"-">> \o Dec(dt.day, 2)
        \o <<" ">> \o Dec(dt.hour, 2)

\* strftime of the short label used inside time_data
short_label(dt) == Dec(dt.month, 2) \o <<"-">> \o Dec(dt.day, 2) \o <<" ">> \o Dec(dt.hour, 2)

\* the rows of the forecast table of one station: one per slot i < len(values)
create_forecast_table(station_id, data, slots) ==
    IF station_id \notin DOMAIN data THEN <<>>
    ELSE LET values == data[station_id].values
         IN  [i \in 1..Min({Len(slots), Len(values)}) |->
                 [time |-> short_label(slots[i]),
                  color |-> get_wbgt_color(values[i])[1]]]

\* time_data[time_key] = {...} of one time_idx (counted from 1)
TimeDataEntry(time_idx, slots, data) ==
    [datetime |-> short_label(slots[time_idx]),
     full_datetime |-> time_label(slots[time_idx]),
     stations |->
        [station_id \in DOMAIN data |->
            LET values == data[station_id].values
                current_value == IF time_idx <= Len(values) THEN values[time_idx]
                                 ELSE None
            IN  [value |-> current_value,
                 color |-> get_wbgt_color(current_value)[1],
                 level |-> get_wbgt_color(current_value)[2],
                 update_time |-> data[station_id].update_time,
                 forecast_table |-> create_forecast_table(station_id, data, slots)]]]

\* "for time_idx, time_slot in enumerate(time_slots)": a later slot with the
\* same key replaces the entry of an earlier one
RECURSIVE BuildTimeData(_, _, _, _)
BuildTimeData(time_idx, slots, data, time_data) ==
    IF time_idx > Len(slots) THEN time_data
    ELSE LET key == time_key(slots[time_idx])
         IN  BuildTimeData(time_idx + 1, slots, data,
                 [k \in DOMAIN time_data \cup {key} |->
                     IF k = key THEN TimeDataEntry(time_idx, slots, data)
                     ELSE time_data[k]])

\* the CircleMarker (fill color, tooltip time and value) and the Marker (the
\* name label) placed for each station of the first key
InitialMarkers(slots, time_data) ==
    LET first_time_key == time_key(slots[1])
        stations == time_data[first_time_key].stations
    IN  {[id |-> 0, owner |-> "renderer", kind |-> "circle", station |-> s,
          color |-> stations[s].color,
          tooltip |-> Some([time |-> time_data[first_time_key].datetime,
                            value |-> stations[s].value])] : s \in DOMAIN stations}
        \cup {[id |-> 0, owner |-> "renderer", kind |-> "label", station |-> s,
               color |-> "none", tooltip |-> None] : s \in DOMAIN stations}

\* gdf is None or Some(crs); slots and data are None or Some(...).  The result
\* is None (the except branch) or Some(Scene).
create_wbgt_map(gdf, slots, data) ==
    LET has_data == data # None /\ DOMAIN data[1] # {} /\ slots # None
                    /\ slots[1] # <<>>
        \* js_data is bound only inside "if wbgt_data and time_slots"
        js_data_bound == has_data
        \* len(time_slots) in slider_html raises TypeError on None
        slider_raises == slots = None
        \* {js_data} in js_code raises UnboundLocalError
        script_raises == ~js_data_bound
    IN  IF gdf = None THEN None
        ELSE IF slider_raises \/ script_raises THEN None
        ELSE LET time_data == BuildTimeData(1, slots[1], data[1], <<>>)
             IN  Some([crs |-> "EPSG:4326",
                       wbgtData |-> time_data,
                       timeSlots |-> [i \in 1..Len(slots[1]) |-> time_key(slots[1][i])],
                       timeLabels |-> [i \in 1..Len(slots[1]) |-> time_label(slots[1][i])],
                       initial_markers |-> InitialMarkers(slots[1], time_data),
                       slider_max |-> Len(slots[1]) - 1])

-----------------------------------------------------------------------------
(* Inputs: forecast texts                                                  *)

\* longest run of header columns enumerated after the two metadata columns
MaxCols == 3
\* largest cell value enumerated, in units of 1/Scale degree
MaxTenths == 360

RECURSIVE Join(_, _)
Join(parts, sep) ==
    IF parts = <<>> THEN <<>>
    ELSE IF Len(parts) = 1 THEN parts[1]
    ELSE parts[1] \o <<sep>> \o Join(Tail(parts), sep)

Tok(year, month, day, hour) ==
    Dec(year, 4) \o Dec(month, 2) \o Dec(day, 2) \o Dec(hour, 2)

\* a text from its lines, each a sequence of cells
TextOf(rows) == Join([i \in 1..Len(rows) |-> Join(rows[i], ",")], "\n")

HeaderOf(cells) == <<<<"_">>, <<"_">>>> \o cells

UpdateTime == Tok(2024, 8, 1, 14)

\* header cells: time tokens (one with hour 24, one naming the same instant
\* as it), a blank cell, a token that is not 10 characters long
HeaderCells ==
    {Tok(2024, 8, 1, 15), Tok(2024, 8, 1, 24), Tok(2024, 8, 2, 0), <<>>,
     Dec(20240801, 8)}

RECURSIVE SeqsUpTo(_, _)
SeqsUpTo(S, n) ==
    IF n = 0 THEN {<<>>}
    ELSE LET shorter == SeqsUpTo(S, n - 1)
         IN  shorter \cup {Append(q, x) : q \in shorter, x \in S}

Row46106 == <<Dec(46106, 5), UpdateTime, Dec(300, 3), Dec(305, 3), Dec(315, 3)>>
RowExcess == <<Dec(46106, 5), UpdateTime, Dec(300, 3), <<"x">>, Dec(315, 3), Dec(200, 3)>>
RowShort == <<Dec(46106, 5), UpdateTime, <<>>, Dec(305, 3)>>
RowUnknown == <<Dec(99999, 5), UpdateTime, Dec(300, 3), Dec(305, 3), Dec(315, 3)>>
RowSigned == <<<<" ">> \o Dec(46091, 5), UpdateTime, <<"-", "5">>,
               <<" ", "2", "8", "0", " ">>, <<"3", "_", "1">>>>
RowNoValues == <<Dec(46106, 5), UpdateTime>>

RowSets ==
    {<<Row46106>>, <<RowExcess>>, <<RowShort, RowSigned>>, <<RowUnknown>>,
     <<RowUnknown, RowExcess, RowUnknown>>,
     <<RowUnknown, Row46106>>, <<RowNoValues>>, <<Row46106, RowShort>>,
     <<<<>>, Row46106>>}

\* every header of up to MaxCols cells with every set of rows
ColumnTexts ==
    {TextOf(<<HeaderOf(h)>> \o rows) : h \in SeqsUpTo(HeaderCells, MaxCols), rows \in RowSets}

\* one header token per date and hour, at month and year ends
DateTexts ==
    {TextOf(<<HeaderOf(<<Tok(y, md[1], md[2], h)>>), Row46106>>) :
        y \in {2023, 2024, 2100, 9999},
        md \in {<<2, 28>>, <<2, 29>>, <<4, 30>>, <<4, 31>>, <<8, 1>>, <<8, 31>>, <<12, 31>>},
        h \in {0, 15, 23, 24, 25}}

\* one station value per text
ValueTexts ==
    {TextOf(<<HeaderOf(<<Tok(2024, 8, 1, 15)>>), <<Dec(46106, 5), UpdateTime, Dec(v, 3)>>>>) :
        v \in 0..MaxTenths}

\* two station values per text, each just below or on a band's lower bound
BoundaryTenths == {209, 210, 249, 250, 279, 280, 309, 310, 329, 330, 349, 350}

PairTexts ==
    {TextOf(<<HeaderOf(<<Tok(2024, 8, 1, 15), Tok(2024, 8, 1, 16)>>),
              <<Dec(46106, 5), UpdateTime, Dec(v1, 3), Dec(v2, 3)>>>>) :
        v1 \in BoundaryTenths, v2 \in BoundaryTenths}

ScenarioText ==
    TextOf(<<HeaderOf(<<Tok(2024, 8, 1, 15), Tok(2024, 8, 1, 16), Tok(2024, 8, 1, 24)>>),
             Row46106>>)

\* empty, blank, one line, one line and a line break, CRLF line ends
ShortTexts ==
    {<<>>, <<"\n">>, <<" ", "\n", " ">>,
     Join(HeaderOf(<<Tok(2024, 8, 1, 15)>>), ","),
     Join(HeaderOf(<<Tok(2024, 8, 1, 15)>>), ",") \o <<"\n">>,
     <<"\n">> \o Join(HeaderOf(<<Tok(2024, 8, 1, 15)>>), ",") \o <<"\n", " ", "\n">>,
     Join(HeaderOf(<<Tok(2024, 8, 1, 15)>>), ",") \o <<"\r", "\n">> \o Join(Row46106, ",")
         \o <<"\r", "\n">>,
     Join(HeaderOf(<<<<"2", "0", "2", "4", "0", "8", "0", "1", "x", "x">>>>), ",")
         \o <<"\n">> \o Join(Row46106, ",")}

InputTexts ==
    ColumnTexts \cup DateTexts \cup ValueTexts \cup PairTexts \cup {ScenarioText}
        \cup ShortTexts

\* the outcomes of requests.get(...) and raise_for_status()
Responses ==
    {[status |-> "ok", text |-> t] : t \in InputTexts}
        \cup {[status |-> st, text |-> <<>>] :
                 st \in {"timeout", "http_error", "connection_error"}}

\* what load_kanagawa_map returns: None, or a frame with its crs
GeoFrames == {None, Some("EPSG:4326"), Some("EPSG:6668")}

-----------------------------------------------------------------------------
(* Idle values of the parts a specification does not exercise              *)

NoCall ==
    [op |-> "none", force |-> FALSE, arg |-> None, resp |-> None, ret |-> None,
     requests |-> 0, saves |-> 0, before |-> [kind |-> "absent"], at |-> 0]

\* the instant the model starts at
StartNow == 2 * cache_duration

AppIdle ==
    /\ pc = "idle"
    /\ response = [status |-> "timeout", text |-> <<>>]
    /\ kanagawa_gdf = None
    /\ csv_content = None
    /\ time_slots = None
    /\ wbgt_data = None
    /\ folium_map = None

CtlIdle ==
    /\ readyState = "none"
    /\ windowMap = FALSE
    /\ layers = {}
    /\ map = FALSE
    /\ currentTimeIndex = 0
    /\ markers = <<>>
    /\ stationMarkers = <<>>
    /\ timeDisplay = <<>>
    /\ sliderValue = 0
    /\ pollTimers = 0
    /\ nextId = 0
    /\ scene = None

-----------------------------------------------------------------------------
(* app.py: the run started by the button                                   *)

Init ==
    /\ pc = "start"
    /\ response \in Responses
    /\ kanagawa_gdf \in GeoFrames
    /\ csv_content = None
    /\ time_slots = None
    /\ wbgt_data = None
    /\ folium_map = None
    /\ cache_file = [kind |-> "absent"]
    /\ now = StartNow
    /\ call = NoCall
    /\ lastPut = None
    /\ CtlIdle

\* app.py:12  csv_content = mapper.download_wbgt_data(force_update=True)
AppDownload ==
    /\ pc = "start"
    /\ LET r == download_wbgt_data(TRUE, cache_file, now, response)
       IN  /\ csv_content' = r.ret
           /\ cache_file' = r.cache_file
           /\ call' = [op |-> "fetch", force |-> TRUE, arg |-> None,
                       resp |-> Some(response), ret |-> r.ret,
                       requests |-> r.requests, saves |-> r.saves,
                       before |-> cache_file, at |-> now]
    /\ pc' = "downloaded"
    /\ UNCHANGED <<response, kanagawa_gdf, time_slots, wbgt_data, folium_map, now,
                   lastPut, ctlVars>>

\* app.py:13  time_slots, wbgt_data = mapper.parse_wbgt_data(csv_content)
AppParse ==
    /\ pc = "downloaded"
    /\ LET r == parse_wbgt_data(csv_content)
       IN  /\ time_slots' = r.time_slots
           /\ wbgt_data' = r.wbgt_data
    /\ pc' = "parsed"
    /\ UNCHANGED <<response, kanagawa_gdf, csv_content, folium_map, cacheVars, ctlVars>>

\* app.py:14  folium_map = mapper.create_wbgt_map(kanagawa_gdf, time_slots, wbgt_data)
AppRender ==
    /\ pc = "parsed"
    /\ folium_map' = create_wbgt_map(kanagawa_gdf, time_slots, wbgt_data)
    /\ pc' = "rendered"
    /\ UNCHANGED <<response, kanagawa_gdf, csv_content, time_slots, wbgt_data,
                   cacheVars, ctlVars>>

\* app.py:16-17  folium_map.save(...): AttributeError on None, caught nowhere
AppSave ==
    /\ pc = "rendered"
    /\ pc' = IF folium_map = None THEN "fault" ELSE "saved"
    /\ UNCHANGED <<response, kanagawa_gdf, csv_content, time_slots, wbgt_data,
                   folium_map, cacheVars, ctlVars>>

\* app.py:19-23  the saved document is read back and embedded
AppEmbed ==
    /\ pc = "saved"
    /\ pc' = "done"
    /\ UNCHANGED <<response, kanagawa_gdf, csv_content, time_slots, wbgt_data,
                   folium_map, cacheVars, ctlVars>>

Next == AppDownload \/ AppParse \/ AppRender \/ AppSave \/ AppEmbed

Spec == Init /\ [][Next]_vars

-----------------------------------------------------------------------------
(* Properties of the run of app.py                                         *)

Parsed == pc \in {"parsed", "rendered", "saved", "done", "fault"}
Rendered == pc \in {"rendered", "saved", "done", "fault"}

\* the text the parser was given, when the download returned one
GivenText == csv_content[1]

\* the 10-character tokens of the header line of a text, in column order
HeaderTokens(text) ==
    LET cells == Split(Split(Strip(text), "\n")[1], ",")
        stripped == [i \in 1..Len(cells) |-> Strip(cells[i])]
    IN  SelectSeq(SubSeq(stripped, 3, Len(cells)), LAMBDA c : Len(c) = 10)

\* C1 as claimed: with geometry present no run ends in an uncaught fault and
\* create_wbgt_map returns a Scene (empty or partial), never None
C1_NoFaultSceneNeverNull ==
    kanagawa_gdf # None =>
        /\ pc # "fault"
        /\ Rendered => folium_map # None

\* the calendar day after a date, by cases on month end and year end
DayAfter(year, month, day) ==
    IF day < DaysInMonth(year, month)
    THEN [year |-> year, month |-> month, day |-> day + 1]
    ELSE IF month < 12 THEN [year |-> year, month |-> month + 1, day |-> 1]
    ELSE [year |-> year + 1, month |-> 1, day |-> 1]

\* the TimeSlot the TimeSlot rule gives a YYYYMMDDHH token
SlotOfToken(tok) ==
    LET year == DigitsValue(SubSeq(tok, 1, 4), 0)
        month == DigitsValue(SubSeq(tok, 5, 6), 0)
        day == DigitsValue(SubSeq(tok, 7, 8), 0)
        hour == DigitsValue(SubSeq(tok, 9, 10), 0)
        next == DayAfter(year, month, day)
    IN  IF hour = 24
        THEN [year |-> next.year, month |-> next.month, day |-> next.day, hour |-> 0]
        ELSE [year |-> year, month |-> month, day |-> day, hour |-> hour]

\* C8: every TimeSlot of the returned axis is the slot of its header token:
\* hour 24 is hour 0 of the day after (over month and year ends), any other
\* hour keeps date and hour; every hour of the axis is in 0..23
C8_Hour24IsNextDay ==
    (Parsed /\ time_slots # None) =>
        LET toks == HeaderTokens(GivenText)
            slots == time_slots[1]
        IN  /\ Len(slots) = Len(toks)
            /\ \A k \in 1..Len(slots) :
                  /\ slots[k] = SlotOfToken(toks[k])
                  /\ slots[k].hour \in 0..23

\* C8 witness: the token 2024123124 was parsed into 2025-01-01 00
C8_Witness ==
    /\ Parsed
    /\ time_slots = Some(<<[year |-> 2025, month |-> 1, day |-> 1, hour |-> 0]>>)
    /\ HeaderTokens(GivenText) = <<Tok(2024, 12, 31, 24)>>

\* the reference threshold table: lower bound in degrees, color, band
Bands ==
    <<<<35, "black", "disaster">>, <<33, "mediumvioletred", "extreme">>,
      <<31, "red", "danger">>, <<28, "orange", "severe-warning">>,
      <<25, "gold", "warning">>, <<21, "deepskyblue", "caution">>>>

\* the band of the table with the highest lower bound <= v, else near-safe
BandOf(value) ==
    IF value = None THEN <<"gray", "no data">>
    ELSE LET hit == {b \in 1..Len(Bands) : Bands[b][1] * Scale <= value[1]}
         IN  IF hit = {} THEN <<"lightblue", "near-safe">>
             ELSE LET b == CHOOSE x \in hit : \A y \in hit : Bands[x][1] >= Bands[y][1]
                  IN  <<Bands[b][2], Bands[b][3]>>

Severity(level) ==
    CASE level = "near-safe" -> 0 [] level = "caution" -> 1 [] level = "warning" -> 2
      [] level = "severe-warning" -> 3 [] level = "danger" -> 4
      [] level = "extreme" -> 5 [] level = "disaster" -> 6

\* the classified snapshots of the rendered scene
Snapshots ==
    IF folium_map = None THEN {}
    ELSE LET d == folium_map[1].wbgtData
         IN  {d[k].stations[s] : k \in DOMAIN d, s \in wbgt_stations \cap DOMAIN wbgt_data[1]}

\* C9: every classified value of the scene carries the color and band of
\* the reference table (None: gray, no data), and of two classified values
\* the greater never has the less severe band
C9_ClassifyIsThresholdTable ==
    /\ \A e \in Snapshots : <<e.color, e.level>> = BandOf(e.value)
    /\ \A e1, e2 \in Snapshots :
          (e1.value # None /\ e2.value # None /\ e1.value[1] >= e2.value[1])
              => Severity(e1.level) >= Severity(e2.level)

\* C9 witness: 31.0 was classified danger beside 30.9 classified severe-warning
C9_Witness ==
    /\ \E e \in Snapshots : e.value = Some(310) /\ e.level = "danger"
    /\ \E e \in Snapshots : e.value = Some(309) /\ e.level = "severe-warning"

ScenarioRun ==
    /\ response = [status |-> "ok", text |-> ScenarioText]
    /\ kanagawa_gdf # None
    /\ pc = "rendered"

ScenarioSlots ==
    <<[year |-> 2024, month |-> 8, day |-> 1, hour |-> 15],
      [year |-> 2024, month |-> 8, day |-> 1, hour |-> 16],
      [year |-> 2024, month |-> 8, day |-> 2, hour |-> 0]>>

\* the bands the scene holds for station 46106, in the order of the axis
ScenarioLevels ==
    [i \in 1..Len(folium_map[1].timeSlots) |->
        folium_map[1].wbgtData[folium_map[1].timeSlots[i]].stations[Dec(46106, 5)].level]

ScenarioParsed ==
    /\ time_slots = Some(ScenarioSlots)
    /\ DOMAIN wbgt_data[1] = {Dec(46106, 5)}
    /\ wbgt_data[1][Dec(46106, 5)].values = <<Some(300), Some(305), Some(315)>>
    /\ folium_map # None

\* C10 as claimed: the scenario yields the three slots, the series
\* [30.0, 30.5, 31.5], and the bands [caution, caution, danger]
C10_ScenarioAsClaimed ==
    ScenarioRun =>
        /\ ScenarioParsed
        /\ ScenarioLevels = <<"caution", "caution", "danger">>

\* C10 amended: the scenario yields the three slots, the series
\* [30.0, 30.5, 31.5], and the bands [severe-warning, severe-warning, danger]
C10_ScenarioAmended ==
    ScenarioRun =>
        /\ ScenarioParsed
        /\ ScenarioLevels = <<"severe-warning", "severe-warning", "danger">>

\* C10 witness: the scenario text was downloaded, parsed and rendered
C10_Witness == ScenarioRun /\ ScenarioParsed

-----------------------------------------------------------------------------
(* The cache store and the fetcher across calls and the passing of time    *)

\* payloads enumerated: the empty text and two others
Payloads == {<<>>, <<"a">>, <<"b">>}

\* how far the clock is let run past StartNow
MaxElapsed == 2 * cache_duration

\* the clock advances by one second less than the TTL, or by the TTL
ClockSteps == {cache_duration - 1, cache_duration}

CacheResponses ==
    {[status |-> "ok", text |-> x] : x \in Payloads}
        \cup {[status |-> st, text |-> <<>>] :
                 st \in {"timeout", "http_error", "connection_error"}}

\* the cache files a run may find: none, damaged ones, entries of several ages
PriorCacheFiles ==
    {[kind |-> "absent"], [kind |-> "not_json"], [kind |-> "not_object"],
     [kind |-> "json", timestamp |-> None, data |-> Some(<<"a">>)],
     [kind |-> "json", timestamp |-> Some(<<"x">>), data |-> Some(<<"a">>)],
     [kind |-> "json", timestamp |-> Some(isoformat(StartNow)), data |-> None]}
        \cup {[kind |-> "json", timestamp |-> Some(isoformat(StartNow - age)),
               data |-> Some(x)] :
                 age \in {0, cache_duration - 1, cache_duration}, x \in Payloads}

InitCache ==
    /\ AppIdle
    /\ CtlIdle
    /\ cache_file \in PriorCacheFiles
    /\ now = StartNow
    /\ call = NoCall
    /\ lastPut = None

\* time passes
CacheTick ==
    \E dt \in ClockSteps :
        /\ now + dt <= StartNow + MaxElapsed
        /\ now' = now + dt
        /\ UNCHANGED <<cache_file, call, lastPut, appVars, ctlVars>>

\* put(x): _save_cache(x)
CachePut ==
    \E x \in Payloads :
        /\ cache_file' = _save_cache(x, now)
        /\ lastPut' = Some([data |-> x, at |-> now])
        /\ call' = [op |-> "put", force |-> FALSE, arg |-> Some(x), resp |-> None,
                    ret |-> None, requests |-> 0, saves |-> 1,
                    before |-> cache_file, at |-> now]
        /\ UNCHANGED <<now, appVars, ctlVars>>

\* get(): _load_cache()
CacheGet ==
    /\ call' = [op |-> "get", force |-> FALSE, arg |-> None, resp |-> None,
                ret |-> _load_cache(cache_file, now), requests |-> 0, saves |-> 0,
                before |-> cache_file, at |-> now]
    /\ UNCHANGED <<cache_file, now, lastPut, appVars, ctlVars>>

\* fetch(force): download_wbgt_data(force_update), the network answering resp
CacheFetch ==
    \E force \in BOOLEAN, resp \in CacheResponses :
        LET r == download_wbgt_data(force, cache_file, now, resp)
        IN  /\ cache_file' = r.cache_file
            /\ lastPut' = IF r.saves > 0 THEN None ELSE lastPut
            /\ call' = [op |-> "fetch", force |-> force, arg |-> None,
                        resp |-> Some(resp), ret |-> r.ret, requests |-> r.requests,
                        saves |-> r.saves, before |-> cache_file, at |-> now]
            /\ UNCHANGED <<now, appVars, ctlVars>>

NextCache == CacheTick \/ CachePut \/ CacheGet \/ CacheFetch

SpecCache == InitCache /\ [][NextCache]_vars

\* C5: a get() after put(x) returns x when less than the TTL has elapsed
\* since the put, and a miss when the TTL or more has elapsed, the entry of
\* the put still being in the file, which get() leaves as it found it
C5_CacheRoundTrip ==
    (call.op = "get" /\ lastPut # None) =>
        LET elapsed == call.at - lastPut[1].at
        IN  /\ elapsed < cache_duration => call.ret = Some(lastPut[1].data)
            /\ elapsed >= cache_duration => call.ret = None
            /\ cache_file = call.before
            /\ cache_file.kind = "json"
            /\ cache_file.data = Some(lastPut[1].data)
            /\ fromisoformat(cache_file.timestamp[1]) = Some(lastPut[1].at)

\* C5 witness: a get() exactly one TTL after put("a") missed
C5_Witness ==
    /\ call.op = "get"
    /\ lastPut # None
    /\ lastPut[1].data = <<"a">>
    /\ call.at - lastPut[1].at = cache_duration
    /\ call.ret = None

\* what get() yields on the file a fetch found
FoundByGet == _load_cache(call.before, call.at)

\* C6 as claimed: whenever get() yields a payload, the empty text included,
\* fetch(force=false) returns that payload with no request and no cache write
C6_HitSkipsNetwork ==
    (call.op = "fetch" /\ ~call.force /\ FoundByGet # None) =>
        /\ call.ret = FoundByGet
        /\ call.requests = 0
        /\ call.saves = 0
        /\ cache_file = call.before

\* C7: a fetch that made no request left the file alone; one that made a
\* request made exactly one, and on success returned the text and left the
\* entry {timestamp: now, data: text}, on failure returned None and left the
\* file as it was
C7_OverwriteIffRetrieved ==
    call.op = "fetch" =>
        /\ call.requests \in {0, 1}
        /\ call.requests = 0 => (cache_file = call.before /\ call.saves = 0)
        /\ (call.requests = 1 /\ call.resp[1].status = "ok") =>
              /\ call.ret = Some(call.resp[1].text)
              /\ cache_file.kind = "json"
              /\ cache_file.data = Some(call.resp[1].text)
              /\ fromisoformat(cache_file.timestamp[1]) = Some(call.at)
        /\ (call.requests = 1 /\ call.resp[1].status # "ok") =>
              /\ call.ret = None
              /\ cache_file = call.before
        /\ call.force => call.requests = 1

\* C7 witness: a forced fetch replaced a valid entry "a" by the retrieved "b"
C7_Witness ==
    /\ call.op = "fetch"
    /\ call.force
    /\ call.resp[1] = [status |-> "ok", text |-> <<"b">>]
    /\ _load_cache(call.before, call.at) = Some(<<"a">>)
    /\ cache_file.data = Some(<<"b">>)

-----------------------------------------------------------------------------
(* The embedded script: the time-index controller                          *)
(*                                                                         *)
(* A layer is a marker object: its identity, who created it, its kind, its *)
(* station, and for a circle its fill color and tooltip.  The globals the  *)
(* script's functions read and write travel as a record g.  Indices are    *)
(* those of the script, from 0.                                            *)

\* controller marker objects created at most, over a run
MaxMarkerIds == 8

RECURSIVE SetToSeq(_)
SetToSeq(S) ==
    IF S = {} THEN <<>>
    ELSE LET x == CHOOSE y \in S : TRUE IN <<x>> \o SetToSeq(S \ {x})

Range(f) == {f[x] : x \in DOMAIN f}

Globals ==
    [map |-> map, markers |-> markers, stationMarkers |-> stationMarkers,
     layers |-> layers, nextId |-> nextId]

\* getMapObject(): the cached map, else the window's map_* with a _container
getMapObject(g) == [g EXCEPT !.map = g.map \/ windowMap]

clearAllMarkers(g) ==
    LET g1 == getMapObject(g)
        registered == {g1.stationMarkers[s].circle : s \in DOMAIN g1.stationMarkers}
                      \cup {g1.stationMarkers[s].label : s \in DOMAIN g1.stationMarkers}
    IN  IF ~g1.map THEN g1
        ELSE [g1 EXCEPT !.layers = (@ \ Range(g1.markers)) \ registered,
                        !.markers = <<>>,
                        !.stationMarkers = <<>>]

\* the body of the forEach over Object.keys(timeData.stations), from key k
RECURSIVE CreateStationMarkers(_, _, _, _)
CreateStationMarkers(g, timeIndex, keys, k) ==
    IF k > Len(keys) THEN g
    ELSE LET stationId == keys[k]
             timeKey == scene[1].timeSlots[timeIndex + 1]
             station == scene[1].wbgtData[timeKey].stations[stationId]
             circleMarker ==
                 [id |-> g.nextId, owner |-> "controller", kind |-> "circle",
                  station |-> stationId, color |-> station.color,
                  tooltip |-> Some([time |-> scene[1].timeLabels[timeIndex + 1],
                                    value |-> station.value])]
             labelMarker ==
                 [id |-> g.nextId + 1, owner |-> "controller", kind |-> "label",
                  station |-> stationId, color |-> "none", tooltip |-> None]
         IN  CreateStationMarkers(
                 [g EXCEPT !.layers = @ \cup {circleMarker, labelMarker},
                           !.markers = @ \o <<circleMarker, labelMarker>>,
                           !.stationMarkers =
                               [s \in DOMAIN @ \cup {stationId} |->
                                   IF s = stationId
                                   THEN [circle |-> circleMarker, label |-> labelMarker]
                                   ELSE @[s]],
                           !.nextId = @ + 2],
                 timeIndex, keys, k + 1)

createMarkersForTime(g, timeIndex) ==
    LET g1 == getMapObject(g)
        timeKey == scene[1].timeSlots[timeIndex + 1]
        keys == SetToSeq(DOMAIN scene[1].wbgtData[timeKey].stations)
    IN  IF ~g1.map THEN g1
        ELSE CreateStationMarkers(g1, timeIndex, keys, 1)

SetGlobals(g) ==
    /\ map' = g.map
    /\ markers' = g.markers
    /\ stationMarkers' = g.stationMarkers
    /\ layers' = g.layers
    /\ nextId' = g.nextId

\* initializeMap with no further poll scheduled when the map is not there
initializeMap_NoRetry ==
    /\ pollTimers > 0
    /\ LET g == getMapObject(Globals)
       IN  IF g.map
           THEN /\ SetGlobals(createMarkersForTime(clearAllMarkers(g), 0))
                /\ pollTimers' = pollTimers - 1
           ELSE /\ SetGlobals(g)
                /\ pollTimers' = pollTimers - 1
    /\ UNCHANGED <<readyState, windowMap, currentTimeIndex, timeDisplay, sliderValue,
                   scene, appVars, cacheVars>>

\* a setTimeout(initializeMap, ...) timer fires
initializeMap ==
    /\ pollTimers > 0
    /\ LET g == getMapObject(Globals)
       IN  IF g.map
           THEN /\ SetGlobals(createMarkersForTime(clearAllMarkers(g), 0))
                /\ pollTimers' = pollTimers - 1
           ELSE /\ SetGlobals(g)
                /\ pollTimers' = (pollTimers - 1) + 1
    /\ UNCHANGED <<readyState, windowMap, currentTimeIndex, timeDisplay, sliderValue,
                   scene, appVars, cacheVars>>

\* the document finishes loading: the listener schedules the first poll
DOMContentLoaded ==
    /\ readyState = "loading"
    /\ readyState' = "complete"
    /\ pollTimers' = pollTimers + 1
    /\ UNCHANGED <<windowMap, layers, map, currentTimeIndex, markers, stationMarkers,
                   timeDisplay, sliderValue, nextId, scene, appVars, cacheVars>>

\* the host's script creates the map and adds the renderer's initial markers
HostCreatesSurface ==
    /\ ~windowMap
    /\ windowMap' = TRUE
    /\ layers' = layers \cup scene[1].initial_markers
    /\ UNCHANGED <<readyState, map, currentTimeIndex, markers, stationMarkers,
                   timeDisplay, sliderValue, pollTimers, nextId, scene, appVars,
                   cacheVars>>

\* updateTimeLabel that redraws the markers as updateDisplay does
updateTimeLabel_Redraw ==
    \E v \in 0..scene[1].slider_max :
        /\ v # sliderValue
        /\ nextId < MaxMarkerIds
        /\ sliderValue' = v
        /\ timeDisplay' = scene[1].timeLabels[v + 1]
        /\ currentTimeIndex' = v
        /\ SetGlobals(createMarkersForTime(clearAllMarkers(Globals), v))
        /\ UNCHANGED <<readyState, windowMap, pollTimers, scene, appVars, cacheVars>>

\* updateDisplay with the markers of the old index left where they are
updateDisplay_NoClear ==
    /\ sliderValue # currentTimeIndex
    /\ nextId < MaxMarkerIds
    /\ currentTimeIndex' = sliderValue
    /\ timeDisplay' = scene[1].timeLabels[sliderValue + 1]
    /\ SetGlobals(createMarkersForTime(getMapObject(Globals), sliderValue))
    /\ UNCHANGED <<readyState, windowMap, sliderValue, pollTimers, scene, appVars,
                   cacheVars>>

\* oninput: the scrubber is dragged to v; updateTimeLabel(v)
updateTimeLabel ==
    \E v \in 0..scene[1].slider_max :
        /\ v # sliderValue
        /\ sliderValue' = v
        /\ timeDisplay' = scene[1].timeLabels[v + 1]
        /\ UNCHANGED <<readyState, windowMap, layers, map, currentTimeIndex, markers,
                       stationMarkers, pollTimers, nextId, scene, appVars, cacheVars>>

\* onchange: the scrubber's value is committed; updateDisplay(this.value)
updateDisplay ==
    /\ sliderValue # currentTimeIndex
    /\ nextId < MaxMarkerIds
    /\ currentTimeIndex' = sliderValue
    /\ timeDisplay' = scene[1].timeLabels[sliderValue + 1]
    /\ SetGlobals(createMarkersForTime(clearAllMarkers(Globals), sliderValue))
    /\ UNCHANGED <<readyState, windowMap, sliderValue, pollTimers, scene, appVars,
                   cacheVars>>

\* the documents the controller is run in
ControllerTexts ==
    {ScenarioText,
     TextOf(<<HeaderOf(<<Tok(2024, 8, 1, 15), Tok(2024, 8, 1, 16)>>), RowShort, RowSigned>>)}

SceneOfText(text) ==
    LET p == parse_wbgt_data(Some(text))
    IN  create_wbgt_map(Some("EPSG:4326"), p.time_slots, p.wbgt_data)

InitController ==
    /\ AppIdle
    /\ cache_file = [kind |-> "absent"]
    /\ now = StartNow
    /\ call = NoCall
    /\ lastPut = None
    /\ scene \in {SceneOfText(t) : t \in ControllerTexts}
    /\ readyState \in {"loading", "complete"}
    /\ pollTimers = IF readyState = "loading" THEN 0 ELSE 1
    /\ windowMap = FALSE
    /\ layers = {}
    /\ map = FALSE
    /\ currentTimeIndex = 0
    /\ markers = <<>>
    /\ stationMarkers = <<>>
    /\ timeDisplay = scene[1].timeLabels[1]
    /\ sliderValue = 0
    /\ nextId = 1

NextController ==
    \/ DOMContentLoaded
    \/ HostCreatesSurface
    \/ initializeMap
    \/ updateTimeLabel
    \/ updateDisplay

SpecController == InitController /\ [][NextController]_vars

\* the browser runs every due timer and finishes loading the document
FairSpecController ==
    SpecController /\ WF_vars(initializeMap) /\ WF_vars(DOMContentLoaded)

ControllerLayers == {m \in layers : m.owner = "controller"}

\* the circle the dataset entry of index i gives station s
EntryCircle(m, i) ==
    LET entry == scene[1].wbgtData[scene[1].timeSlots[i + 1]].stations[m.station]
    IN  /\ m.color = entry.color
        /\ m.tooltip = Some([time |-> scene[1].timeLabels[i + 1], value |-> entry.value])

\* C2 as claimed: whenever the controller has markers on the surface, its
\* circles are those of the dataset entry at currentTimeIndex
C2_MarkersFollowCommittedIndex ==
    \A m \in ControllerLayers : m.kind = "circle" => EntryCircle(m, currentTimeIndex)

\* C3 as claimed: each station has at most one circle and at most one label
\* on the surface, the renderer's initial markers counted
C3_NoDuplicateGlyphs ==
    \A m1, m2 \in layers :
        (m1.station = m2.station /\ m1.kind = m2.kind) => m1 = m2

\* the poll found the map and created the markers of index 0
PollSucceeded == readyState = "complete" /\ pollTimers = 0

\* C4: once the surface exists a poll eventually finds it, and that poll
\* leaves exactly the markers of index 0 registered; a poll that finds no
\* surface creates nothing and leaves exactly one poll pending
C4_PollUntilSurface ==
    /\ windowMap ~> PollSucceeded
    /\ [][(initializeMap /\ (map \/ windowMap)) =>
            /\ pollTimers' = 0
            /\ markers' # <<>>
            /\ \A i \in 1..Len(markers') :
                  /\ markers'[i] \in layers'
                  /\ markers'[i].kind = "circle" => EntryCircle(markers'[i], 0)]_vars
    /\ [][(initializeMap /\ ~(map \/ windowMap)) =>
            /\ layers' = layers
            /\ markers' = markers
            /\ pollTimers = 1
            /\ pollTimers' = 1]_vars

\* C4 witness: the host made the surface and a poll found it and created
\* the markers of index 0
C4_Witness ==
    /\ PollSucceeded
    /\ windowMap
    /\ markers # <<>>
    /\ currentTimeIndex = 0
    /\ \A m \in ControllerLayers : m.kind = "circle" => EntryCircle(m, 0)

\* the markers the registry stationMarkers holds
Registered ==
    {stationMarkers[s].circle : s \in DOMAIN stationMarkers}
        \cup {stationMarkers[s].label : s \in DOMAIN stationMarkers}

\* the registries hold one circle and one label for each station of the
\* dataset entry of index i, the circle showing that entry, and nothing else
RegistriesHoldEntry(ms, sm, i) ==
    LET stations == scene[1].wbgtData[scene[1].timeSlots[i + 1]].stations
    IN  /\ DOMAIN sm = DOMAIN stations
        /\ Len(ms) = 2 * Cardinality(DOMAIN stations)
        /\ Range(ms) = {sm[s].circle : s \in DOMAIN sm} \cup {sm[s].label : s \in DOMAIN sm}
        /\ \A s \in DOMAIN sm :
              /\ sm[s].circle.kind = "circle" /\ sm[s].circle.station = s
              /\ sm[s].label.kind = "label" /\ sm[s].label.station = s
              /\ EntryCircle(sm[s].circle, i)

\* C14: a committed scrubber change made when the surface exists takes every
\* marker the controller had created off the surface and out of both
\* registries, and leaves the registries holding exactly one circle and one
\* label per station of the dataset entry of the new index, all of them on
\* the surface; and at all times every controller-created marker on the
\* surface is in the registries as it was created
C14_ClearThenCreate ==
    /\ [](ControllerLayers \subseteq Range(markers) /\ Range(markers) = Registered)
    /\ [][(updateDisplay /\ (map \/ windowMap)) =>
            /\ \A m \in ControllerLayers \cup Range(markers) \cup Registered :
                  m \notin layers' /\ m \notin Range(markers')
            /\ currentTimeIndex' = sliderValue
            /\ RegistriesHoldEntry(markers', stationMarkers', currentTimeIndex')
            /\ {m \in layers' : m.owner = "controller"} = Range(markers')]_vars

\* C14 witness: after a second creation of markers the scrubber was
\* committed at index 2, and the registries and the surface hold the
\* markers of index 2 only
C14_Witness ==
    /\ map
    /\ currentTimeIndex = 2
    /\ sliderValue = 2
    /\ nextId > 1 + 2 * Len(markers)
    /\ RegistriesHoldEntry(markers, stationMarkers, 2)
    /\ ControllerLayers = Range(markers)

\* C16: a drag event changes the displayed time label, to the label of the
\* dragged-to index, and leaves currentTimeIndex, both registries, the
\* markers on the surface and the cached surface as they were
C16_DragChangesLabelOnly ==
    [][updateTimeLabel =>
          /\ timeDisplay' = scene[1].timeLabels[sliderValue' + 1]
          /\ currentTimeIndex' = currentTimeIndex
          /\ markers' = markers
          /\ stationMarkers' = stationMarkers
          /\ layers' = layers
          /\ map' = map]_vars

\* C16 witness: with the markers of the committed index on the surface, the
\* scrubber was dragged to another index and the label shows that index
C16_Witness ==
    /\ map
    /\ markers # <<>>
    /\ sliderValue # currentTimeIndex
    /\ timeDisplay = scene[1].timeLabels[sliderValue + 1]
    /\ timeDisplay # scene[1].timeLabels[currentTimeIndex + 1]
    /\ RegistriesHoldEntry(markers, stationMarkers, currentTimeIndex)
    /\ ControllerLayers = Range(markers)

-----------------------------------------------------------------------------
(* Properties of the parsed series                                         *)

\* the data lines of a text, each as its cells: the lines after the header
DataLines(text) ==
    LET lines == Split(Strip(text), "\n")
    IN  [k \in 1..(Len(lines) - 1) |-> Split(lines[k + 1], ",")]

\* the station id a data line names
LineStation(cells) == Strip(cells[1])

ParsedOk == Parsed /\ time_slots # None

\* the data lines of a registered station
RegisteredLines == {k \in DOMAIN DataLines(GivenText) :
                       LineStation(DataLines(GivenText)[k]) \in wbgt_stations}

\* the data lines the result mapping is built from: at least 3 columns, and
\* no later such line of the same station
DecidingLines ==
    LET rows == DataLines(GivenText)
    IN  {k \in RegisteredLines :
            /\ Len(rows[k]) >= 3
            /\ \A j \in RegisteredLines :
                  (j > k /\ LineStation(rows[j]) = LineStation(rows[k]))
                      => Len(rows[j]) < 3}

SeriesMatchesLine(k) ==
    LET cells == DataLines(GivenText)[k]
        s == LineStation(cells)
    IN  /\ s \in DOMAIN wbgt_data[1]
        /\ Len(wbgt_data[1][s].values) = Min({Len(cells) - 2, Len(time_slots[1])})

\* C11 as claimed: every data line of a registered station has its series
\* in the result, of length min(columns - 2, N)
C11_EveryRegisteredLine ==
    ParsedOk => \A k \in RegisteredLines : SeriesMatchesLine(k)

\* C11 amended: every data line of a registered station that has at least 3
\* columns and is the last such line of its station has its series in the
\* result, of length min(columns - 2, N); no series is longer than the axis
C11_SeriesLength ==
    ParsedOk =>
        /\ \A k \in DecidingLines : SeriesMatchesLine(k)
        /\ \A s \in DOMAIN wbgt_data[1] :
              Len(wbgt_data[1][s].values) <= Len(time_slots[1])

\* C11 witness: on an axis of 3 slots one line with 4 value columns gave a
\* series of 3 values, or one with 2 value columns a series of 2
C11_Witness ==
    /\ ParsedOk
    /\ Len(time_slots[1]) = 3
    /\ \E k \in DecidingLines :
          /\ Len(DataLines(GivenText)[k]) \in {4, 6}
          /\ SeriesMatchesLine(k)

\* a cell is numeric when it holds an integer literal, blanks around it aside
Numeric(cell) == int(cell) # None

\* the value the tolerance rule gives a cell: null for a blank or
\* non-numeric cell, else its number (kept in tenths, see Scale)
CellValue(cell) ==
    IF Strip(cell) = <<>> \/ ~Numeric(cell) THEN None ELSE int(cell)

\* the header line of a text followed by one line that names no station
HeaderAlone(text) == Split(Strip(text), "\n")[1] \o <<"\n", "x">>

HasDataLine == csv_content # None /\ Len(Split(Strip(GivenText), "\n")) >= 2

\* C12: parser tolerance. The data rows never decide whether the parse
\* succeeds (the time axis is the one the header gives with a single
\* station-less row); in the series of a registered station every consumed
\* cell gives, at its own index, null when blank or non-numeric and its
\* number otherwise; the stations of the result are exactly those of the
\* deciding registered rows, so a row of an unregistered station adds no
\* entry and changes no other
C12_ParserTolerance ==
    (Parsed /\ HasDataLine) =>
        /\ time_slots = parse_wbgt_data(Some(HeaderAlone(GivenText))).time_slots
        /\ time_slots # None =>
              LET rows == DataLines(GivenText)
              IN  /\ DOMAIN wbgt_data[1] = {LineStation(rows[k]) : k \in DecidingLines}
                  /\ \A k \in DecidingLines :
                        LET series == wbgt_data[1][LineStation(rows[k])].values
                        IN  \A i \in 1..Len(series) :
                               series[i] = CellValue(rows[k][i + 2])

\* C12 witness: between two rows of an unregistered station, a row of a
\* registered one with a non-numeric cell between two numeric cells gave a
\* series with null at that index and the two numbers around it
C12_Witness ==
    /\ ParsedOk
    /\ \E k \in DecidingLines :
          LET rows == DataLines(GivenText)
              series == wbgt_data[1][LineStation(rows[k])].values
          IN  /\ k > 1 /\ k < Len(rows)
              /\ LineStation(rows[k - 1]) \notin wbgt_stations
              /\ LineStation(rows[k + 1]) \notin wbgt_stations
              /\ Len(series) = 3
              /\ series[1] = Some(300) /\ series[2] = None /\ series[3] = Some(315)
              /\ Strip(rows[k][4]) # <<>>
    /\ DOMAIN wbgt_data[1] = {Dec(46106, 5)}

\* the lines of a text that are not blank
NonBlankLines(text) ==
    LET lines == Split(text, "\n")
    IN  {k \in 1..Len(lines) : Strip(lines[k]) # <<>>}

\* C13: a text that is absent, empty or has fewer than 2 lines is parsed
\* into (null, null), the parse returning all the same; and whatever the
\* text, the two components of the result are both null or both non-null
C13_NullPairOrFullPair ==
    Parsed =>
        /\ (csv_content = None \/ Cardinality(NonBlankLines(GivenText)) < 2)
              => (time_slots = None /\ wbgt_data = None)
        /\ time_slots = None <=> wbgt_data = None

\* C13 witness: a text of one header line and a line break was parsed into
\* (null, null)
C13_Witness ==
    /\ Parsed
    /\ csv_content # None
    /\ Cardinality(NonBlankLines(GivenText)) = 1
    /\ Len(Split(GivenText, "\n")) = 2
    /\ HeaderTokens(GivenText) = <<Tok(2024, 8, 1, 15)>>
    /\ time_slots = None /\ wbgt_data = None

\* the columns of the header line that hold a 10-character token, in order
HeaderColumns(text) ==
    LET cells == Split(Split(Strip(text), "\n")[1], ",")
    IN  SelectSeq([c \in 1..Len(cells) |-> c],
                  LAMBDA c : c >= 3 /\ Len(Strip(cells[c])) = 10)

\* C17 as claimed: every value of a returned series was parsed from the
\* data-line column that has the column number of the header token of its
\* TimeSlot, blank or short header cells between two tokens included
C17_ColumnAlignment ==
    ParsedOk =>
        LET rows == DataLines(GivenText)
            columns == HeaderColumns(GivenText)
        IN  \A k \in DecidingLines :
               LET series == wbgt_data[1][LineStation(rows[k])].values
               IN  \A i \in 1..Len(series) :
                      /\ columns[i] <= Len(rows[k])
                      /\ series[i] = CellValue(rows[k][columns[i]])

\* with no blank or short cell before the last header token, the same holds
AlignedWhenHeaderHasNoGap ==
    (ParsedOk /\ \A i \in DOMAIN HeaderColumns(GivenText) :
                    HeaderColumns(GivenText)[i] = i + 2)
        => C17_ColumnAlignment

-----------------------------------------------------------------------------
(* Properties of the embedded dataset                                      *)

\* C15 as claimed: looked up through the key of TimeSlot i, the embedded
\* dataset holds for every station the value of its series at i (null past
\* the end of the series) with the classification of that value, and the
\* dataset has one entry per index of the time axis, two header tokens of
\* one instant included
C15_EntryPerIndex ==
    (Rendered /\ folium_map # None) =>
        LET embedded == folium_map[1]
            slots == time_slots[1]
            data == wbgt_data[1]
        IN  /\ \A i \in 1..Len(slots) : \A s \in DOMAIN data :
                  LET entry == embedded.wbgtData[embedded.timeSlots[i]].stations[s]
                      values == data[s].values
                      value == IF i <= Len(values) THEN values[i] ELSE None
                  IN  /\ embedded.timeSlots[i] = time_key(slots[i])
                      /\ entry.value = value
                      /\ <<entry.color, entry.level>> = get_wbgt_color(value)
            /\ Cardinality(DOMAIN embedded.wbgtData) = Len(slots)

\* with pairwise distinct keys the dataset has an entry per index
EntryPerIndexWhenKeysDiffer ==
    (Rendered /\ folium_map # None
        /\ Cardinality(Range(folium_map[1].timeSlots)) = Len(time_slots[1]))
        => C15_EntryPerIndex

=============================================================================
